---- MODULE Spec2Model ----
(***************************************************************************)
(* Model of plugins/socib/plugin.py of FAIR_eva: the metadata value        *)
(* extractor MetadataValues (gather and its per-element rules, the license *)
(* vocabulary validator), the construction of Plugin from the metadata     *)
(* document, and the indicators of Plugin.                                 *)
(*                                                                         *)
(* Python values are tagged records, so that the runtime type inspected by *)
(* the code (isinstance, subscripting, iteration) is part of the value.    *)
(***************************************************************************)
EXTENDS Integers, Sequences, FiniteSets, TLC

VARIABLES
    element,          \* gather: the element kind passed by the caller
    element_values,   \* gather: the raw value(s) passed by the caller
    values,           \* gather: the returned _values
    gather_path,      \* gather: "start" | "rule" (else branch of try) | "fallback" (except branch)
    gather_raised,    \* gather: TRUE iff the call left gather with an exception
    license_list,     \* the resolved licenses (kwargs["License"] / the licenses argument)
    vocabularies,     \* _validate_license: sequence of configured vocabulary ids (dict order)
    machine_readable, \* _validate_license / rda_r1_1_02m: the machine_readable flag of the call
    license_data,     \* _validate_license: the returned map, as a function on vocabulary ids
    op,               \* the last operation invoked ("none" before any)
    raised,           \* the exception the last operation left with ("" if it returned)
    points,           \* the points of the last indicator result
    msg,              \* the single message entry of the last license indicator result
    msg_list,         \* the message list of the last indicator result
    pc,               \* Plugin: "new" | "constructed" | "aborted" (__init__ raised)
    response,         \* Plugin.get_metadata: what the two requests answered ("none" before)
    document,         \* Plugin.get_metadata: the json_ld object of the SOCIB response
    metadata,         \* Plugin: self.metadata, the rows of the table
    config_data_standard, \* configuration: the data_standard entry
    data_standard,    \* Plugin: self.data_standard
    fairsharing,      \* the abbreviations of the entries of the FAIRsharing registry, in its order
    relations,        \* the kwargs the term resolution hands to rda_i3_03m
    cv_validated      \* what eval_validated_basic gives rda_i1_01m: (message, points)

vars == <<element, element_values, values, gather_path, gather_raised,
          license_list, vocabularies, machine_readable, license_data,
          op, raised, points, msg, msg_list,
          pc, response, document, metadata, config_data_standard, data_standard,
          fairsharing, relations, cv_validated>>

gatherVars == <<element, element_values, values, gather_path, gather_raised>>
licenseVars == <<license_list, vocabularies, machine_readable, license_data,
                 op, raised, points, msg, msg_list>>
\* the evaluator and what it reads from outside
pluginVars == <<pc, response, document, metadata, config_data_standard, data_standard,
                fairsharing, relations, cv_validated>>

----------------------------------------------------------------------------
(* Bounds of the model *)

\* longest raw list handed to gather
MaxLen == 3
\* longest license list
MaxLicenses == 6
\* longest list of configured data standards
MaxStandards == 2

----------------------------------------------------------------------------
(* Python values *)

Str(s) == [t |-> "str", s |-> s]
IntV(n) == [t |-> "int", n |-> n]
NoneV == [t |-> "none"]
Dict(f) == [t |-> "dict", d |-> f]
List(l) == [t |-> "list", l |-> l]
Tuple(l) == [t |-> "tuple", l |-> l]

\* the outcome of evaluating a Python expression: a value or an exception
Ok(v) == [exc |-> "", val |-> v]
Raise(e) == [exc |-> e, val |-> NoneV]

\* isinstance(v, str)
IsStr(v) == v.t = "str"
IsList(v) == v.t = "list"

\* the characters of a text, as one-character texts (iterating a str)
Chars(s) == [i \in 1..Len(s) |-> Str(SubSeq(s, i, i))]

RECURSIVE SetToSeq(_)
SetToSeq(S) ==
    IF S = {} THEN <<>>
    ELSE LET x == CHOOSE y \in S : TRUE IN <<x>> \o SetToSeq(S \ {x})

\* iter(v): the items a for loop or a comprehension draws from v
Iter(v) ==
    CASE v.t = "list" -> Ok(v.l)
      [] v.t = "tuple" -> Ok(v.l)
      [] v.t = "str" -> Ok(Chars(v.s))
      [] v.t = "dict" -> Ok([i \in 1..Cardinality(DOMAIN v.d) |-> Str(SetToSeq(DOMAIN v.d)[i])])
      [] OTHER -> Raise("TypeError")

\* v[key] for a text key
Subscript(v, key) ==
    CASE v.t = "dict" -> IF key \in DOMAIN v.d THEN Ok(v.d[key]) ELSE Raise("KeyError")
      [] OTHER -> Raise("TypeError")

\* sub in s, for two texts
Contains(s, sub) ==
    \E i \in 1..(Len(s) + 1) :
        /\ i + Len(sub) - 1 <= Len(s)
        /\ SubSeq(s, i, i + Len(sub) - 1) = sub

\* key in v, for a text key
In(key, v) ==
    CASE v.t = "dict" -> Ok(key \in DOMAIN v.d)
      [] v.t = "str" -> Ok(Contains(v.s, key))
      [] v.t = "list" -> Ok(\E i \in 1..Len(v.l) : v.l[i] = Str(key))
      [] v.t = "tuple" -> Ok(\E i \in 1..Len(v.l) : v.l[i] = Str(key))
      [] OTHER -> Raise("TypeError")

\* v.get(key, default)
Get(v, key, default) ==
    CASE v.t = "dict" -> Ok(IF key \in DOMAIN v.d THEN v.d[key] ELSE default)
      [] OTHER -> Raise("AttributeError")

----------------------------------------------------------------------------
(* dateutil.parser.isoparse, as far as _get_date depends on it: whether the *)
(* call returns, raises ValueError or raises TypeError.                     *)

Digits == {"0", "1", "2", "3", "4", "5", "6", "7", "8", "9"}

\* s[a:b] with 0-based half-open Python slice bounds, clipped to the text
Slice(s, a, b) == SubSeq(s, a + 1, IF b <= Len(s) THEN b ELSE Len(s))

\* int(s) returns for a non-empty run of decimal digits and raises ValueError otherwise
IsDigits(s) == Len(s) > 0 /\ \A i \in 1..Len(s) : SubSeq(s, i, i) \in Digits

DigitVal(c) ==
    CASE c = "0" -> 0 [] c = "1" -> 1 [] c = "2" -> 2 [] c = "3" -> 3 [] c = "4" -> 4
      [] c = "5" -> 5 [] c = "6" -> 6 [] c = "7" -> 7 [] c = "8" -> 8 [] c = "9" -> 9

RECURSIVE ToInt(_)
ToInt(s) ==
    IF Len(s) = 0 THEN 0
    ELSE 10 * ToInt(SubSeq(s, 1, Len(s) - 1)) + DigitVal(SubSeq(s, Len(s), Len(s)))

IsLeap(y) == y % 4 = 0 /\ (y % 100 # 0 \/ y % 400 = 0)

DaysInMonth(y, m) ==
    CASE m \in {1, 3, 5, 7, 8, 10, 12} -> 31
      [] m \in {4, 6, 9, 11} -> 30
      [] OTHER -> IF IsLeap(y) THEN 29 ELSE 28

\* datetime(y, m, d, ...) accepts the date
ValidDate(y, m, d) == y >= 1 /\ m \in 1..12 /\ d >= 1 /\ d <= DaysInMonth(y, m)

\* the result of a date parse: ok = FALSE stands for ValueError; pos is the
\* 0-based position after the date
DateBad == [ok |-> FALSE, y |-> 0, m |-> 0, d |-> 0, pos |-> 0]
DateOk(y, m, d, pos) == [ok |-> TRUE, y |-> y, m |-> m, d |-> d, pos |-> pos]

\* _parse_isodate_common, the day: two digits at p3
CommonDay(s, y, m, p3) ==
    IF Len(s) - p3 < 2 \/ ~IsDigits(Slice(s, p3, p3 + 2)) THEN DateBad
    ELSE DateOk(y, m, ToInt(Slice(s, p3, p3 + 2)), p3 + 2)

\* _parse_isodate_common, after the month, which ended at p2
CommonAfterMonth(s, y, m, has_sep, p2) ==
    IF p2 >= Len(s) THEN (IF has_sep THEN DateOk(y, m, 1, p2) ELSE DateBad)
    ELSE IF has_sep /\ Slice(s, p2, p2 + 1) # "-" THEN DateBad
    ELSE CommonDay(s, y, m, IF has_sep THEN p2 + 1 ELSE p2)

\* _parse_isodate_common, the month: two digits at p1
CommonMonth(s, y, has_sep, p1) ==
    IF Len(s) - p1 < 2 \/ ~IsDigits(Slice(s, p1, p1 + 2)) THEN DateBad
    ELSE CommonAfterMonth(s, y, ToInt(Slice(s, p1, p1 + 2)), has_sep, p1 + 2)

\* isoparser._parse_isodate_common: YYYY, YYYY-MM, YYYY-MM-DD, YYYYMMDD
ParseIsoDateCommon(s) ==
    IF Len(s) < 4 \/ ~IsDigits(Slice(s, 0, 4)) THEN DateBad
    ELSE IF 4 >= Len(s) THEN DateOk(ToInt(Slice(s, 0, 4)), 1, 1, 4)
    ELSE CommonMonth(s, ToInt(Slice(s, 0, 4)), Slice(s, 4, 5) = "-",
                     IF Slice(s, 4, 5) = "-" THEN 5 ELSE 4)

\* _parse_isodate_uncommon, the ordinal day: three digits at p1
OrdinalDay(s, y, p1) ==
    IF Len(s) - p1 < 3 \/ ~IsDigits(Slice(s, p1, p1 + 3)) THEN DateBad
    ELSE IF \/ ToInt(Slice(s, p1, p1 + 3)) < 1
            \/ ToInt(Slice(s, p1, p1 + 3)) > (IF IsLeap(y) THEN 366 ELSE 365)
            \/ y < 1
         THEN DateBad
    ELSE DateOk(y, 1, 1, p1 + 3)

\* isoparser._parse_isodate_uncommon, ordinal dates YYYYDDD and YYYY-DDD
\* (week dates, which hold a "W", are not among the texts of the model)
ParseIsoDateUncommon(s) ==
    IF Len(s) < 4 \/ ~IsDigits(Slice(s, 0, 4)) THEN DateBad
    ELSE OrdinalDay(s, ToInt(Slice(s, 0, 4)), IF Slice(s, 4, 5) = "-" THEN 5 ELSE 4)

\* the text without a trailing Z
TimeBody(s) ==
    IF Len(s) > 0 /\ Slice(s, Len(s) - 1, Len(s)) \in {"Z", "z"}
    THEN Slice(s, 0, Len(s) - 1) ELSE s

\* hh:mm or hh:mm:ss
ParsesClock(body) ==
    /\ Len(body) >= 5
    /\ IsDigits(Slice(body, 0, 2)) /\ Slice(body, 2, 3) = ":"
    /\ IsDigits(Slice(body, 3, 5))
    /\ ToInt(Slice(body, 0, 2)) <= 23 /\ ToInt(Slice(body, 3, 5)) <= 59
    /\ \/ Len(body) = 5
       \/ /\ Len(body) = 8
          /\ Slice(body, 5, 6) = ":"
          /\ IsDigits(Slice(body, 6, 8))
          /\ ToInt(Slice(body, 6, 8)) <= 59

\* isoparser._parse_isotime for hh:mm, hh:mm:ss and a trailing Z
\* (other time forms are not among the texts of the model)
ParsesIsoTime(s) == Len(s) >= 2 /\ ParsesClock(TimeBody(s))

\* the date of a text: the common forms, and the uncommon ones when those fail
ParseIsoDate(s) ==
    IF ParseIsoDateCommon(s).ok THEN ParseIsoDateCommon(s) ELSE ParseIsoDateUncommon(s)

\* isoparse of a text
IsoParseText(s, r) ==
    IF ~r.ok THEN "ValueError"
    ELSE IF Len(s) > r.pos /\ ~ParsesIsoTime(Slice(s, r.pos + 1, Len(s))) THEN "ValueError"
    ELSE IF ~ValidDate(r.y, r.m, r.d) THEN "ValueError"
    ELSE ""

\* isoparse(v): "" when it returns a datetime, else the exception it raises.
\* A text is parsed; len() of None or of a number raises TypeError; a dict or a
\* list is too short under 4 items (ValueError) and cannot be parsed above.
isoparse(v) ==
    CASE v.t = "str" -> IsoParseText(v.s, ParseIsoDate(v.s))
      [] v.t = "dict" -> IF Cardinality(DOMAIN v.d) < 4 THEN "ValueError" ELSE "TypeError"
      [] v.t \in {"list", "tuple"} -> IF Len(v.l) < 4 THEN "ValueError" ELSE "TypeError"
      [] OTHER -> "TypeError"

----------------------------------------------------------------------------
(* MetadataValues: the per-element rules *)

\* _get_identifiers_metadata: the raw input, as it is
get_identifiers_metadata(ev) == Ok(ev)

\* [value_data["value"] for value_data in items]; the first failing item raises
RECURSIVE ValueOfEach(_)
ValueOfEach(items) ==
    IF items = <<>> THEN Ok(<<>>)
    ELSE LET h == Subscript(Head(items), "value") IN
         IF h.exc # "" THEN h
         ELSE LET r == ValueOfEach(Tail(items)) IN
              IF r.exc # "" THEN r ELSE Ok(<<h.val>> \o r.val)

\* _get_identifiers_data
get_identifiers_data(ev) ==
    LET it == Iter(ev) IN
    IF it.exc # "" THEN it
    ELSE LET r == ValueOfEach(it.val) IN
         IF r.exc # "" THEN r ELSE Ok(List(r.val))

\* [(value_data.get("startDate", ""), value_data.get("endDate", "")) for ...]
RECURSIVE CoverageOfEach(_)
CoverageOfEach(items) ==
    IF items = <<>> THEN Ok(<<>>)
    ELSE LET a == Get(Head(items), "startDate", Str(""))
             b == Get(Head(items), "endDate", Str(""))
         IN  IF a.exc # "" THEN a
             ELSE LET r == CoverageOfEach(Tail(items)) IN
                  IF r.exc # "" THEN r
                  ELSE Ok(<<Tuple(<<a.val, b.val>>)>> \o r.val)

\* _get_temporal_coverage
get_temporal_coverage(ev) ==
    LET it == Iter(ev) IN
    IF it.exc # "" THEN it
    ELSE LET r == CoverageOfEach(it.val) IN
         IF r.exc # "" THEN r ELSE Ok(List(r.val))

\* [value_data["@id"] for value_data in items if "@id" in value_data]
RECURSIVE IdOfEach(_)
IdOfEach(items) ==
    IF items = <<>> THEN Ok(<<>>)
    ELSE LET c == In("@id", Head(items)) IN
         IF c.exc # "" THEN c
         ELSE LET h == IF c.val THEN Subscript(Head(items), "@id") ELSE Ok(NoneV) IN
              IF h.exc # "" THEN h
              ELSE LET r == IdOfEach(Tail(items)) IN
                   IF r.exc # "" THEN r
                   ELSE Ok((IF c.val THEN <<h.val>> ELSE <<>>) \o r.val)

\* _get_person
get_person(ev) ==
    LET it == Iter(ev) IN
    IF it.exc # "" THEN it
    ELSE LET r == IdOfEach(it.val) IN
         IF r.exc # "" THEN r ELSE Ok(List(r.val))

\* the loop of _get_date: an entry is appended when isoparse returns, skipped on
\* ValueError; any other exception leaves the loop and the method
RECURSIVE DatesOf(_)
DatesOf(items) ==
    IF items = <<>> THEN Ok(<<>>)
    ELSE LET e == isoparse(Head(items)) IN
         IF e \notin {"", "ValueError"} THEN Raise(e)
         ELSE LET r == DatesOf(Tail(items)) IN
              IF r.exc # "" THEN r
              ELSE Ok((IF e = "" THEN <<Head(items)>> ELSE <<>>) \o r.val)

\* _get_date
get_date(ev) ==
    LET it == Iter(ev) IN
    IF it.exc # "" THEN it
    ELSE LET r == DatesOf(it.val) IN
         IF r.exc # "" THEN r ELSE Ok(List(r.val))

\* the if/elif chain of gather's try block
Dispatch(ev, el) ==
    CASE el = "Metadata Identifier" -> get_identifiers_metadata(ev)
      [] el = "Data Identifier" -> get_identifiers_data(ev)
      [] el = "Temporal Coverage" -> get_temporal_coverage(ev)
      [] el = "Person Identifier" -> get_person(ev)
      [] el = "Date" -> get_date(ev)
      [] OTHER -> Raise("NotImplementedError")

\* an except branch that wraps whatever it is handed
Fallback_wrapping(ev) == List(<<ev>>)

\* the except branch of gather: the raw input, wrapped in a list when it is a text
Fallback(ev) == IF IsStr(ev) THEN List(<<ev>>) ELSE ev

\* gather(element_values, element): the returned _values and the branch taken.
\* The finally clause returns _values whatever happened, so nothing is raised.
gather(ev, el) ==
    LET r == Dispatch(ev, el) IN
    IF r.exc # ""
    THEN [values |-> Fallback(ev), path |-> "fallback", raised |-> FALSE]
    ELSE [values |-> r.val, path |-> "rule", raised |-> FALSE]

----------------------------------------------------------------------------
(* The SPDX license catalog behind api.utils.is_spdx_license *)

\* license identifiers of the catalog (the match asked for when machine_readable)
SpdxIds == {"MIT", "CC-BY-4.0"}
\* texts the looser, human-readable match accepts besides the identifiers
SpdxNames == {"MIT License"}

\* ut.is_spdx_license(_license, machine_readable=machine_readable)
is_spdx_license(l, mr) == IF mr THEN l \in SpdxIds ELSE l \in SpdxIds \cup SpdxNames

----------------------------------------------------------------------------
(* MetadataValues._validate_license *)

\* the inner loop over licenses: each license is appended to valid or to non_valid
RECURSIVE ValidateEach(_, _, _)
ValidateEach(licenses, mr, acc) ==
    IF licenses = <<>> THEN acc
    ELSE LET l == Head(licenses) IN
         ValidateEach(Tail(licenses), mr,
            IF is_spdx_license(l, mr)
            THEN [acc EXCEPT !.valid = Append(@, l)]
            ELSE [acc EXCEPT !.non_valid = Append(@, l)])

\* an entry that records the validated licenses only, without the else branch
VocabularyEntry_valid_only(vocabulary_id, licenses, mr) ==
    [ValidateEach(IF vocabulary_id \in {"spdx"} THEN licenses ELSE <<>>, mr,
                  [valid |-> <<>>, non_valid |-> <<>>])
     EXCEPT !.non_valid = <<>>]

\* the entry stored under one vocabulary id: created empty, filled for "spdx" only
VocabularyEntry(vocabulary_id, licenses, mr) ==
    LET empty == [valid |-> <<>>, non_valid |-> <<>>] IN
    IF vocabulary_id \in {"spdx"} THEN ValidateEach(licenses, mr, empty) ELSE empty

\* the ids that get a key in license_data
VocabularyKeys(vocs) == {vocs[i] : i \in 1..Len(vocs)}

\* _validate_license(licenses, vocabularies, machine_readable): the returned map
validate_license(licenses, vocs, mr) ==
    [v \in VocabularyKeys(vocs) |-> VocabularyEntry(v, licenses, mr)]

----------------------------------------------------------------------------
(* Plugin.rda_r1_1_02m and Plugin.rda_r1_1_03m *)

max_points == 100

\* Python 3 round(n / d) for integers n >= 0, d > 0: to nearest, ties to even
Round(n, d) ==
    LET q == n \div d
        r == n % d
    IN  IF 2 * r < d THEN q
        ELSE IF 2 * r > d THEN q + 1
        ELSE IF q % 2 = 0 THEN q ELSE q + 1

\* a per-license share that truncates instead of rounding
points_per_license_floor(license_num) == max_points \div license_num

\* points_per_license = round(max_points / license_num)
points_per_license(license_num) == Round(max_points, license_num)

\* the loop of rda_r1_1_02m: the standard licenses and the points they add up to
RECURSIVE ScoreEach(_, _, _, _)
ScoreEach(licenses, mr, per, acc) ==
    IF licenses = <<>> THEN acc
    ELSE LET l == Head(licenses) IN
         ScoreEach(Tail(licenses), mr, per,
            IF is_spdx_license(l, mr)
            THEN [standard |-> Append(acc.standard, l), points |-> acc.points + per]
            ELSE acc)

MsgStandard == "License/s in use are considered as standard according to SPDX license list: %s"
MsgSubset == "A subset of the license/s in use (%s out of %s) are standard according to SDPX license list: %s"
MsgNone == "None of the license/s defined are standard according to SPDX license list: %s"

\* the if/elif/else choosing the message of rda_r1_1_02m, with the arguments of
\* its % formatting and the points joined to it
LicenseMessage(licenses, standard, pts) ==
    IF pts = 100 THEN [text |-> MsgStandard, args |-> <<standard>>, points |-> pts]
    ELSE IF pts > 0
         THEN [text |-> MsgSubset, args |-> <<Len(standard), Len(licenses), standard>>,
               points |-> pts]
    ELSE [text |-> MsgNone, args |-> <<licenses>>, points |-> pts]

NoResult == [text |-> "", args |-> <<>>, points |-> 0]

\* rda_r1_1_02m: the exception it leaves with ("" if none), its points and message
rda_r1_1_02m(licenses, mr) ==
    IF Len(licenses) = 0
    THEN [raised |-> "ZeroDivisionError", points |-> 0, msg |-> NoResult]
    ELSE LET s == ScoreEach(licenses, mr, points_per_license(Len(licenses)),
                            [standard |-> <<>>, points |-> 0])
         IN  [raised |-> "", points |-> s.points,
              msg |-> LicenseMessage(licenses, s.standard, s.points)]

\* rda_r1_1_03m: rda_r1_1_02m with machine_readable=True, and its own message
rda_r1_1_03m(licenses) ==
    LET r == rda_r1_1_02m(licenses, TRUE) IN
    IF r.raised # "" THEN r
    ELSE [raised |-> "", points |-> r.points,
          msg |-> [text |-> IF r.points = 100
                            THEN "License/s are machine readable according to SPDX"
                            ELSE IF r.points = 0
                            THEN "License/s are not machine readable according to SPDX"
                            ELSE "A subset of the license/s are machine readable according to SPDX",
                   args |-> <<>>, points |-> r.points]]

----------------------------------------------------------------------------
(* Plugin: construction *)

\* a row of self.metadata, in the order of its columns
Row(schema, key, value) ==
    [metadata_schema |-> schema, element |-> key, text_value |-> value, qualifier |-> NoneV]

\* a loop that adds one row per key, whatever the value under it
RowsOf_single(schema, key, value) == <<Row(schema, key, value)>>

\* the rows one key of json_ld adds: one per item of a list, else one
RowsOf(schema, key, value) ==
    IF IsList(value)
    THEN [i \in 1..Len(value.l) |-> Row(schema, key, value.l[i])]
    ELSE <<Row(schema, key, value)>>

\* the loop over dicion.keys(); doc is the sequence of <<key, value>> of json_ld
RECURSIVE RowsOfAll(_, _)
RowsOfAll(schema, doc) ==
    IF doc = <<>> THEN <<>>
    ELSE RowsOf(schema, Head(doc)[1], Head(doc)[2]) \o RowsOfAll(schema, Tail(doc))

\* dicion['json_ld'][key]
DocHas(doc, key) == \E i \in 1..Len(doc) : doc[i][1] = key
DocGet(doc, key) == doc[CHOOSE i \in 1..Len(doc) : doc[i][1] = key][2]

\* a get_metadata that goes on without the document when a request fails
get_metadata_lenient(resp, doc) ==
    IF resp # "ok" THEN [exc |-> "", rows |-> <<>>]
    ELSE IF ~DocHas(doc, "schemaVersion") THEN [exc |-> "KeyError", rows |-> <<>>]
    ELSE [exc |-> "", rows |-> RowsOfAll(DocGet(doc, "schemaVersion"), doc)]

\* get_metadata: the exception it raises ("" if none) and the rows it returns.
\* A DataCite answer that is not OK ends in the TypeError of the % formatting of
\* its message, a SOCIB answer that is not OK in raise Exception(msg).
get_metadata(resp, doc) ==
    IF resp = "datacite_fail" THEN [exc |-> "TypeError", rows |-> <<>>]
    ELSE IF resp = "socib_fail" THEN [exc |-> "Exception", rows |-> <<>>]
    ELSE IF ~DocHas(doc, "schemaVersion") THEN [exc |-> "KeyError", rows |-> <<>>]
    ELSE [exc |-> "", rows |-> RowsOfAll(DocGet(doc, "schemaVersion"), doc)]

----------------------------------------------------------------------------
(* Plugin: indicators. A result is the exception the call leaves with ("" if *)
(* it returns), the points and the message list.                             *)

\* a message: a text with the values formatted or concatenated into it
Text(text, args) == [t |-> "str", text |-> text, args |-> args]
\* a message that is a list
ListMsg(l) == [t |-> "list", l |-> l]
\* {"message": message, "points": points}
Entry(message, pts) == [message |-> message, points |-> pts]

Returns(pts, entries) == [raised |-> "", points |-> pts, msg_list |-> entries]
Raises(e) == [raised |-> e, points |-> 0, msg_list |-> <<>>]

\* a / b * 100 for two lengths, b > 0: the float, kept as the fraction 100a / b
Ratio(a, b) == [t |-> "float", num |-> 100 * a, den |-> b]

\* rda_f4_01m
rda_f4_01m(md) ==
    IF Len(md) > 0
    THEN Returns(100, <<Entry(Text("Metadata is searchable by Google because of the JSON-LD record included in the landing page", <<>>), 100)>>)
    ELSE Returns(0, <<Entry(Text("No metadata record is included as a JSON-LD object in the data product's landing page. Please, contact to repository data steward", <<>>), 0)>>)

\* an identifier check that does not look at the table
rda_a1_03m_resolved(md) ==
    Returns(100, <<Entry(Text("Metadata record could be retrieved from metadata identifier: %s", <<"item_id">>), 100)>>)

\* rda_a1_03m; DataFrame.empty holds iff the table has no row
rda_a1_03m(md) ==
    IF ~(Len(md) = 0)
    THEN Returns(100, <<Entry(Text("Metadata record could be retrieved from metadata identifier: %s", <<"item_id">>), 100)>>)
    ELSE Returns(0, <<Entry(Text("Metadata record cannot be retrieved from metadata identifier: %s", <<"item_id">>), 0)>>)

\* the element names of the terms_access configuration
TermsAccess == {"conditionsOfAccess"}

\* the rows of the table the term resolution hands over for a set of element names
ResolveTerms(md, terms) == SelectSeq(md, LAMBDA row : row.element \in terms)

\* the loop of rda_a1_01m over the resolved rows: a text is concatenated to the
\* message, anything else raises TypeError
RECURSIVE AccessMessages(_)
AccessMessages(rows) ==
    IF rows = <<>> THEN Ok(<<>>)
    ELSE IF ~IsStr(Head(rows).text_value) THEN Raise("TypeError")
    ELSE LET r == AccessMessages(Tail(rows)) IN
         IF r.exc # "" THEN r
         ELSE Ok(<<Text("Metadata found for access: ", <<Head(rows).text_value>>)>> \o r.val)

MsgRegistration == "Data is only downloadable upon registration in the SOCIB website"

\* a chain that leaves the points of the metadata check as they are
AccessTable_unraised(second, pts) ==
    [points |-> pts,
     entries |-> <<Entry(Text("Data can be accessed manually | %s", <<MsgRegistration>>), second)>>]

\* the if/elif chain of rda_a1_01m on (points_2, points): the points returned
\* and the entries appended to the message list
AccessTable(points_2, pts) ==
    IF points_2 = 100 /\ pts = 100
    THEN [points |-> pts,
          entries |-> <<Entry(Text("Data can be accessed manually | %s", <<MsgRegistration>>), points_2)>>]
    ELSE IF points_2 = 0 /\ pts = 100
    THEN [points |-> pts,
          entries |-> <<Entry(Text("Data can not be accessed manually | %s", <<MsgRegistration>>), points_2)>>]
    ELSE IF points_2 = 100 /\ pts = 0
    THEN [points |-> 100,
          entries |-> <<Entry(Text("Data can be accessed manually | %s", <<MsgRegistration>>), points_2)>>]
    ELSE IF points_2 = 0 /\ pts = 0
    THEN [points |-> pts,
          entries |-> <<Entry(Text("No access information can be found in the metadata. Please, add information to the following term(s) %s", <<"term_data">>), points_2)>>]
    ELSE [points |-> pts, entries |-> <<>>]

\* points_2 = 100
points_2 == 100

\* rda_a1_01m on the resolved rows
rda_a1_01m(rows) ==
    LET m == AccessMessages(rows) IN
    IF m.exc # "" THEN Raises(m.exc)
    ELSE LET pts == IF Len(rows) > 0 THEN 100 ELSE 0
             t == AccessTable(points_2, pts)
         IN  Returns(t.points, <<Entry(ListMsg(m.val), pts)>> \o t.entries)

\* rda_a1_02m on what the landing-page request gave: an exception is logged
\* and the return statement then reads points, which was never bound
rda_a1_02m(page) ==
    IF page = "error" THEN Raises("UnboundLocalError")
    ELSE IF page = "json_ld"
    THEN Returns(100, <<Entry(Text("JSON-LD available in the landing page. Javascript takes care of formatting it for human readability", <<>>), 100)>>)
    ELSE Returns(0, <<Entry(Text("No JSON-LD avaialble in the landing page", <<>>), 0)>>)

\* rda_i1_01m: the (message, points) of eval_validated_basic in one entry
rda_i1_01m(cv) == Returns(cv.points, <<Entry(cv.msg, cv.points)>>)

\* self.vocabulary.get_fairsharing(data_standard): the registry entries the
\* search gives, those whose abbreviation holds the text searched for
get_fairsharing(registry, q) == SelectSeq(registry, LAMBDA a : Contains(a, q))

\* the registry search returned some entry
StandardReturned(registry, q) == get_fairsharing(registry, q) # <<>>

\* result_filtered of rda_i1_01d is not empty
StandardFound(registry, q) ==
    LET result == get_fairsharing(registry, q) IN
    \E k \in 1..Len(result) : result[k] = q

\* rda_i1_01d
rda_i1_01d(standards, registry) ==
    LET found == SelectSeq(standards, LAMBDA q : StandardFound(registry, q))
        pts == IF standards # <<>> THEN Ratio(Len(found), Len(standards)) ELSE 0
    IN  Returns(pts, <<Entry(Text("Found %s (%s) out of %s (%s) data standards using standard vocabularies",
                                  <<Len(found), found, Len(standards), standards>>), pts)>>)

\* rda_r1_3_01d: the message list of rda_i1_01d becomes the message of one entry
rda_r1_3_01d(standards, registry) ==
    LET r == rda_i1_01d(standards, registry) IN
    IF r.raised # "" THEN r
    ELSE Returns(r.points, <<Entry(ListMsg(r.msg_list), r.points)>>)

\* an alias that puts the message list of its target into a new entry
rda_i1_02d_wrapping(standards, registry) ==
    LET r == rda_i1_01d(standards, registry) IN
    Returns(r.points, <<Entry(ListMsg(r.msg_list), r.points)>>)

\* rda_i1_02d: (points, msg_list) = self.rda_i1_01d()
rda_i1_02d(standards, registry) ==
    LET r == rda_i1_01d(standards, registry) IN
    IF r.raised # "" THEN r ELSE Returns(r.points, r.msg_list)

\* rda_i2_01d: (points, msg_list) = self.rda_i1_01d()
rda_i2_01d(standards, registry) ==
    LET r == rda_i1_01d(standards, registry) IN
    IF r.raised # "" THEN r ELSE Returns(r.points, r.msg_list)

\* rda_i2_01m: (points, msg_list) = self.rda_i1_01m()
rda_i2_01m(cv) ==
    LET r == rda_i1_01m(cv) IN
    IF r.raised # "" THEN r ELSE Returns(r.points, r.msg_list)

\* a loop that counts every vocabulary of the validation result
RECURSIVE QualifiedOfElement_any(_, _)
QualifiedOfElement_any(el, validation) ==
    IF validation = <<>> THEN <<>>
    ELSE <<Text("'%s' element uses vocabulary %s in '%s'",
                <<el, Head(validation).vocabulary, Head(validation).valid>>)>>
         \o QualifiedOfElement_any(el, Tail(validation))

\* the inner loop of rda_i3_03m over the vocabularies of one element
RECURSIVE QualifiedOfElement(_, _)
QualifiedOfElement(el, validation) ==
    IF validation = <<>> THEN <<>>
    ELSE (IF Head(validation).valid # <<>>
          THEN <<Text("'%s' element uses vocabulary %s in '%s'",
                      <<el, Head(validation).vocabulary, Head(validation).valid>>)>>
          ELSE <<>>)
         \o QualifiedOfElement(el, Tail(validation))

\* the loop of rda_i3_03m over kwargs.items(): msg_list
RECURSIVE QualifiedReferences(_)
QualifiedReferences(kwargs) ==
    IF kwargs = <<>> THEN <<>>
    ELSE QualifiedOfElement(Head(kwargs).element, Head(kwargs).validation)
         \o QualifiedReferences(Tail(kwargs))

\* rda_i3_03m; has_qualified_references is set exactly when msg_list grows
rda_i3_03m(kwargs) ==
    LET l == QualifiedReferences(kwargs) IN
    IF l # <<>>
    THEN Returns(100, <<Entry(Text("Metadata has qualified references to other metadata: %s", l), 100)>>)
    ELSE Returns(0, <<Entry(Text("Metadata does not have qualified references to other metadata", <<>>), 0)>>)

\* rda_i3_01m: points, msg = self.rda_i3_03m()
rda_i3_01m(kwargs) ==
    LET r == rda_i3_03m(kwargs) IN
    IF r.raised # "" THEN r ELSE Returns(r.points, r.msg_list)

\* the result of a license indicator, as a message list
LicenseResult(r) ==
    IF r.raised # "" THEN Raises(r.raised)
    ELSE Returns(r.points, <<Entry(Text(r.msg.text, r.msg.args), r.points)>>)

----------------------------------------------------------------------------
(* Inputs *)

\* element kinds a caller passes: the five gather dispatches on, and others
ElementKinds ==
    {"Metadata Identifier", "Data Identifier", "Temporal Coverage", "Person Identifier",
     "Date", "Description", "Type", "Language", "License", "Spatial Coverage",
     "Keywords"}

\* entries of a raw value list: texts (dates and others), a number, null and
\* structured entries of the shapes the metadata document holds
Entries ==
    {Str("2021-02-03"), Str("2018-01-31T00:00:00Z"), Str("abc"), IntV(42), NoneV,
     Dict([type |-> Str("DOI"), value |-> Str("10.25704/z5y2-qpye")]),
     Dict("@id" :> Str("https://orcid.org/0000-0003-4551-3339")),
     Dict([startDate |-> Str("2018-01-31T00:00:00Z")]),
     Dict([geo |-> Dict([box |-> Str("38.0 0.0 41.0 5.0")])])}

SeqsUpTo(S, n) == UNION {[1..k -> S] : k \in 0..n}

\* shapes of element_values: a list of entries, or one entry that is not in a list
RawValues == {List(l) : l \in SeqsUpTo(Entries, MaxLen)} \cup Entries

\* license texts: an SPDX identifier, an SPDX license name, and a text that is neither
Licenses == {"MIT", "MIT License", "not-a-license"}

\* configured vocabularies, in the order of the dict: "spdx" is implemented
VocabularyChoices ==
    {<<>>, <<"spdx">>, <<"fairsharing">>, <<"spdx", "fairsharing">>, <<"fairsharing", "spdx">>}

\* json_ld objects of the SOCIB response, as the sequence of their (key, value):
\* with a text under conditionsOfAccess, with a list of texts, without the key,
\* with an object under it, with nothing but an empty schemaVersion list, and
\* without schemaVersion
DocText ==
    << <<"schemaVersion", Str("1.0")>>, <<"name", Str("Glider")>>,
       <<"conditionsOfAccess", Str("open")>> >>
DocList ==
    << <<"schemaVersion", Str("1.0")>>,
       <<"conditionsOfAccess", List(<<Str("open"), Str("registered")>>)>> >>
DocNoAccess == << <<"schemaVersion", Str("1.0")>>, <<"name", Str("Glider")>> >>
DocObject ==
    << <<"schemaVersion", Str("1.0")>>,
       <<"conditionsOfAccess", Dict([url |-> Str("https://socib.es/terms")])>> >>
DocEmpty == << <<"schemaVersion", List(<<>>)>> >>
DocNoSchema == << <<"name", Str("Glider")>> >>
Documents == {DocText, DocList, DocNoAccess, DocObject, DocEmpty, DocNoSchema}

\* what the DataCite and the SOCIB request answer
Responses == {"ok", "datacite_fail", "socib_fail"}

\* what the landing-page request of rda_a1_02m gives: a page with a JSON-LD
\* tag, a page without one, or an exception of the request or of the parser
LandingPages == {"json_ld", "no_json_ld", "error"}

\* abbreviations of data standards: configured ones and registered ones
Abbreviations == {"NetCDF", "CF"}
Registries == {<<>>, <<"NetCDF">>, <<"NetCDF-CF">>, <<"NetCDF", "NetCDF-CF">>}

\* kwargs of rda_i3_03m: per configured relation element, per vocabulary, the
\* valid values of the validation result
RelationChoices ==
    {<<>>,
     <<[element |-> "isPartOf", validation |-> <<>>]>>,
     <<[element |-> "isPartOf",
        validation |-> <<[vocabulary |-> "ror", valid |-> <<>>]>>]>>,
     <<[element |-> "isPartOf",
        validation |-> <<[vocabulary |-> "ror", valid |-> <<"https://ror.org/02f7p1y27">>]>>]>>,
     <<[element |-> "isPartOf",
        validation |-> <<[vocabulary |-> "ror", valid |-> <<>>],
                         [vocabulary |-> "orcid", valid |-> <<"0000-0003-4551-3339">>]>>],
       [element |-> "funder",
        validation |-> <<[vocabulary |-> "ror", valid |-> <<"https://ror.org/02f7p1y27">>]>>]>>}

\* (message, points) of eval_validated_basic
ValidatedChoices ==
    {[msg |-> Text("validated", <<>>), points |-> 100],
     [msg |-> Text("not validated", <<>>), points |-> 0]}

\* license lists of the evaluator runs
PluginLicenses == {<<>>, <<"MIT", "not-a-license">>}

----------------------------------------------------------------------------
(* State machine *)

GatherIdle ==
    /\ element = ""
    /\ element_values = List(<<>>)
    /\ values = NoneV
    /\ gather_path = "start"
    /\ gather_raised = FALSE

LicenseIdle ==
    /\ license_list = <<>>
    /\ vocabularies = <<>>
    /\ machine_readable = FALSE
    /\ license_data = <<>>
    /\ op = "none"
    /\ raised = ""
    /\ points = 0
    /\ msg = NoResult
    /\ msg_list = <<>>

\* an evaluator constructed from a document with nothing but an empty
\* schemaVersion list, under a configuration without data standards
PluginIdle ==
    /\ pc = "constructed"
    /\ response = "ok"
    /\ document = DocEmpty
    /\ metadata = <<>>
    /\ config_data_standard = <<>>
    /\ data_standard = <<>>
    /\ fairsharing = <<>>
    /\ relations = <<>>
    /\ cv_validated = [msg |-> Text("not validated", <<>>), points |-> 0]

\* a caller about to invoke gather on some raw values and some element kind
InitGather ==
    /\ element \in ElementKinds
    /\ element_values \in RawValues
    /\ values = NoneV
    /\ gather_path = "start"
    /\ gather_raised = FALSE
    /\ LicenseIdle
    /\ PluginIdle

\* the call of gather
Gather ==
    /\ gather_path = "start"
    /\ element \in ElementKinds
    /\ LET r == gather(element_values, element) IN
        /\ values' = r.values
        /\ gather_path' = r.path
        /\ gather_raised' = r.raised
    /\ UNCHANGED <<element, element_values>>
    /\ UNCHANGED licenseVars
    /\ UNCHANGED pluginVars

NextGather == Gather

SpecGather == InitGather /\ [][NextGather]_vars

\* an evaluator whose license terms resolved to some list and whose
\* configuration names some vocabularies
InitLicense ==
    /\ license_list \in SeqsUpTo(Licenses, MaxLicenses)
    /\ vocabularies \in VocabularyChoices
    /\ machine_readable = FALSE
    /\ license_data = <<>>
    /\ op = "none"
    /\ raised = ""
    /\ points = 0
    /\ msg = NoResult
    /\ msg_list = <<>>
    /\ GatherIdle
    /\ PluginIdle

\* a call of _validate_license(licenses, vocabularies, machine_readable)
ValidateLicense ==
    /\ \E mr \in BOOLEAN :
        /\ machine_readable' = mr
        /\ license_data' = validate_license(license_list, vocabularies, mr)
    /\ op' = "_validate_license"
    /\ raised' = ""
    /\ points' = 0
    /\ msg' = NoResult
    /\ msg_list' = <<>>
    /\ UNCHANGED <<license_list, vocabularies>>
    /\ UNCHANGED gatherVars
    /\ UNCHANGED pluginVars

\* the indicator rda_r1_1_02m, invoked by name (machine_readable defaults to False)
R1_1_02m ==
    /\ pc = "constructed"
    /\ LET r == rda_r1_1_02m(license_list, FALSE) IN
        /\ raised' = r.raised
        /\ points' = r.points
        /\ msg' = r.msg
        /\ msg_list' = LicenseResult(r).msg_list
    /\ op' = "rda_r1_1_02m"
    /\ machine_readable' = FALSE
    /\ UNCHANGED <<license_list, vocabularies, license_data>>
    /\ UNCHANGED gatherVars
    /\ UNCHANGED pluginVars

\* the indicator rda_r1_1_03m
R1_1_03m ==
    /\ pc = "constructed"
    /\ LET r == rda_r1_1_03m(license_list) IN
        /\ raised' = r.raised
        /\ points' = r.points
        /\ msg' = r.msg
        /\ msg_list' = LicenseResult(r).msg_list
    /\ op' = "rda_r1_1_03m"
    /\ machine_readable' = TRUE
    /\ UNCHANGED <<license_list, vocabularies, license_data>>
    /\ UNCHANGED gatherVars
    /\ UNCHANGED pluginVars

NextLicense == ValidateLicense \/ R1_1_02m \/ R1_1_03m

SpecLicense == InitLicense /\ [][NextLicense]_vars

\* before Plugin(item_id, config=config): a configuration, and what the
\* collaborators of the run will answer
InitPlugin ==
    /\ pc = "new"
    /\ response = "none"
    /\ document = <<>>
    /\ metadata = <<>>
    /\ data_standard = <<>>
    /\ config_data_standard \in SeqsUpTo(Abbreviations, MaxStandards)
    /\ fairsharing \in Registries
    /\ relations \in RelationChoices
    /\ cv_validated \in ValidatedChoices
    /\ license_list \in PluginLicenses
    /\ vocabularies = <<>>
    /\ machine_readable = FALSE
    /\ license_data = <<>>
    /\ op = "none"
    /\ raised = ""
    /\ points = 0
    /\ msg = NoResult
    /\ msg_list = <<>>
    /\ GatherIdle

\* Plugin.__init__: get_metadata, the table, the configuration attributes
Construct ==
    /\ pc = "new"
    /\ \E resp \in Responses, doc \in Documents :
        LET r == get_metadata(resp, IF resp = "ok" THEN doc ELSE <<>>) IN
        /\ response' = resp
        /\ document' = IF resp = "ok" THEN doc ELSE <<>>
        /\ pc' = IF r.exc = "" THEN "constructed" ELSE "aborted"
        /\ metadata' = r.rows
        /\ data_standard' = IF r.exc = "" THEN config_data_standard ELSE <<>>
        /\ raised' = r.exc
    /\ op' = "__init__"
    /\ points' = 0
    /\ msg' = NoResult
    /\ msg_list' = <<>>
    /\ UNCHANGED <<config_data_standard, fairsharing, relations, cv_validated>>
    /\ UNCHANGED <<license_list, vocabularies, machine_readable, license_data>>
    /\ UNCHANGED gatherVars

\* a call of an indicator method that consumes the table it reads
Invoke_consuming(name, r) ==
    /\ pc = "constructed"
    /\ op' = name
    /\ raised' = r.raised
    /\ points' = r.points
    /\ msg_list' = r.msg_list
    /\ msg' = NoResult
    /\ metadata' = <<>>
    /\ UNCHANGED <<pc, response, document, config_data_standard, data_standard,
                   fairsharing, relations, cv_validated>>
    /\ UNCHANGED <<license_list, vocabularies, machine_readable, license_data>>
    /\ UNCHANGED gatherVars

\* the call of an indicator method on the evaluator: the caller gets the
\* result or the exception, no attribute of the evaluator is assigned
Invoke(name, r) ==
    /\ pc = "constructed"
    /\ op' = name
    /\ raised' = r.raised
    /\ points' = r.points
    /\ msg_list' = r.msg_list
    /\ msg' = NoResult
    /\ UNCHANGED <<pc, response, document, metadata, config_data_standard, data_standard,
                   fairsharing, relations, cv_validated>>
    /\ UNCHANGED <<license_list, vocabularies, machine_readable, license_data>>
    /\ UNCHANGED gatherVars

F4_01m == Invoke("rda_f4_01m", rda_f4_01m(metadata))

A1_01m == Invoke("rda_a1_01m", rda_a1_01m(ResolveTerms(metadata, TermsAccess)))

A1_02m ==
    \E page \in LandingPages :
        Invoke("rda_a1_02m", rda_a1_02m(page))

A1_03m == Invoke("rda_a1_03m", rda_a1_03m(metadata))

I1_01m == Invoke("rda_i1_01m", rda_i1_01m(cv_validated))

I1_01d == Invoke("rda_i1_01d", rda_i1_01d(data_standard, fairsharing))

I1_02d == Invoke("rda_i1_02d", rda_i1_02d(data_standard, fairsharing))

I2_01m == Invoke("rda_i2_01m", rda_i2_01m(cv_validated))

I2_01d == Invoke("rda_i2_01d", rda_i2_01d(data_standard, fairsharing))

I3_01m == Invoke("rda_i3_01m", rda_i3_01m(relations))

I3_03m == Invoke("rda_i3_03m", rda_i3_03m(relations))

R1_3_01d == Invoke("rda_r1_3_01d", rda_r1_3_01d(data_standard, fairsharing))

NextPlugin ==
    \/ Construct
    \/ F4_01m \/ A1_01m \/ A1_02m \/ A1_03m
    \/ I1_01m \/ I1_01d \/ I1_02d \/ I2_01m \/ I2_01d \/ I3_01m \/ I3_03m
    \/ R1_1_02m \/ R1_1_03m \/ R1_3_01d

SpecPlugin == InitPlugin /\ [][NextPlugin]_vars

----------------------------------------------------------------------------
(* Properties of gather, checked under SpecGather *)

GatherDone == gather_path # "start"

\* C1: gather never raises and always returns a list, whatever the element kind
\* and the shape of element_values (list, text, number, null, structured object)
C1_GatherAlwaysList == GatherDone => (~gather_raised /\ IsList(values))

IsScalar(v) == v.t \in {"str", "int", "none"}

\* C2: on the fallback path the result is the raw input wrapped in a one-element
\* list when the raw input is a single scalar of any type, and the raw
\* collection itself otherwise
C2_FallbackWrapsScalar ==
    gather_path = "fallback" =>
        values = (IF IsScalar(element_values) THEN List(<<element_values>>)
                  ELSE element_values)

DescriptionKinds == {"Description", "Type", "Language", "License"}

\* C3: for Description, Type, Language and License gather returns exactly the
\* text entries of the raw list, in order; non-text entries are dropped
C3_DescriptionKeepsText ==
    (GatherDone /\ element \in DescriptionKinds /\ IsList(element_values)) =>
        values = List(SelectSeq(element_values.l, IsStr))

ParsesAsIso(v) == isoparse(v) = ""

\* C4: for Date gather returns exactly the entries of the raw list that parse as
\* ISO-8601, in order, whatever ill-formed entries (text or not) the list holds
C4_DateKeepsParsing ==
    (GatherDone /\ element = "Date" /\ IsList(element_values)) =>
        values = List(SelectSeq(element_values.l, ParsesAsIso))

\* an entry that contains a nested geo-box
HasGeoBox(v) ==
    /\ v.t = "dict"
    /\ "geo" \in DOMAIN v.d
    /\ v.d["geo"].t = "dict"
    /\ "box" \in DOMAIN v.d["geo"].d

\* C5: for Spatial Coverage the output has one element per raw entry that
\* contains a geo-box, and none of them is null or a raw entry without a box
C5_SpatialDropsBoxless ==
    (GatherDone /\ element = "Spatial Coverage" /\ IsList(element_values)) =>
        /\ IsList(values)
        /\ Len(values.l) = Len(SelectSeq(element_values.l, HasGeoBox))
        /\ \A i \in 1..Len(values.l) :
            /\ values.l[i] # NoneV
            /\ ~\E j \in 1..Len(element_values.l) :
                  element_values.l[j] = values.l[i] /\ ~HasGeoBox(element_values.l[j])

----------------------------------------------------------------------------
(* Properties of the license validator and indicators, checked under SpecLicense *)

\* the integer nearest to n / d, the even one of two equally near
Nearest(n, d) ==
    CHOOSE q \in 0..n :
        /\ 2 * q * d - 2 * n <= d
        /\ 2 * n - 2 * q * d <= d
        /\ (2 * n - 2 * q * d \in {d, 0 - d}) => q % 2 = 0

\* the number of entries of a license list that validate as SPDX-standard
NumStandard(licenses, mr) ==
    Cardinality({i \in 1..Len(licenses) : is_spdx_license(licenses[i], mr)})

C7_EmptyListScoresZero ==
    (op = "rda_r1_1_02m" /\ license_list = <<>>) =>
        (raised = "" /\ points = 0 /\ msg.text # "")

\* C8: the points returned by rda_r1_1_02m and rda_r1_1_03m lie in 0..100
C8_PointsInRange ==
    (op \in {"rda_r1_1_02m", "rda_r1_1_03m"} /\ raised = "") => points \in 0..100

\* C9: a vocabulary id without a backend (any id but "spdx") has no key in the
\* result of _validate_license
C9_UnimplementedAbsent ==
    op = "_validate_license" =>
        \A i \in 1..Len(vocabularies) :
            vocabularies[i] # "spdx" => vocabularies[i] \notin DOMAIN license_data

\* the number of occurrences of x in a list
Count(l, x) == Cardinality({i \in 1..Len(l) : l[i] = x})

\* C10: for the implemented vocabulary id, valid and non_valid partition the
\* input licenses: each license, counted with multiplicity, is in exactly one
C10_Partition ==
    (op = "_validate_license" /\ "spdx" \in DOMAIN license_data) =>
        LET e == license_data["spdx"] IN
        /\ Len(e.valid) + Len(e.non_valid) = Len(license_list)
        /\ \A x \in Licenses :
            /\ Count(e.valid, x) + Count(e.non_valid, x) = Count(license_list, x)
            /\ Count(e.valid, x) = 0 \/ Count(e.non_valid, x) = 0

\* C10, its case: a list with a repeated license, split over both lists
C10_Witness ==
    /\ op = "_validate_license"
    /\ "spdx" \in DOMAIN license_data
    /\ license_data["spdx"].valid = <<"MIT", "MIT">>
    /\ license_data["spdx"].non_valid = <<"not-a-license">>
    /\ Len(license_list) = 3

----------------------------------------------------------------------------
(* Properties of the evaluator and its indicators, checked under SpecPlugin *)

\* the result the last call left with the caller
Result == [raised |-> raised, points |-> points, msg_list |-> msg_list]

\* C11: rda_r1_3_01d returns the result of its target rda_i1_01d on the same
\* state: the same points and the same message list, each entry's message
\* being the message text of the target
C11_StandardAliasIdentical ==
    op = "rda_r1_3_01d" =>
        /\ Result = rda_i1_01d(data_standard, fairsharing)
        /\ \A i \in 1..Len(msg_list) : msg_list[i].message.t = "str"

\* C12: rda_i1_02d and rda_i2_01d return exactly the result of rda_i1_01d,
\* rda_i2_01m that of rda_i1_01m and rda_i3_01m that of rda_i3_03m, on the
\* same state
C12_AliasesIdentical ==
    /\ op \in {"rda_i1_02d", "rda_i2_01d"} => Result = rda_i1_01d(data_standard, fairsharing)
    /\ op = "rda_i2_01m" => Result = rda_i1_01m(cv_validated)
    /\ op = "rda_i3_01m" => Result = rda_i3_03m(relations)

\* C12, its case: rda_i1_02d returned for two configured data standards of
\* which the registry holds one
C12_Witness ==
    /\ op = "rda_i1_02d"
    /\ raised = ""
    /\ Len(data_standard) = 2
    /\ points = Ratio(1, 2)
    /\ Len(msg_list) = 1

\* C13: a call of rda_a1_02m never raises: whatever the landing-page request
\* or its parsing does, the caller gets points (0 on a failure) and one message
C13_LandingPageNeverRaises ==
    op = "rda_a1_02m" =>
        /\ raised = ""
        /\ points \in {0, 100}
        /\ Len(msg_list) = 1

\* the decision table of the access indicator over (access metadata present,
\* manual access signal present)
TableScore(metadataPresent, accessPresent) ==
    IF ~metadataPresent /\ ~accessPresent THEN 0 ELSE 100

\* the rows of the table the term resolution hands rda_a1_01m
AccessRows == ResolveTerms(metadata, TermsAccess)

C15_AccessMessages ==
    (op = "rda_a1_01m" /\ AccessRows # <<>>) =>
        /\ raised = ""
        /\ points = 100
        /\ \A i \in 1..Len(msg_list) : msg_list[i].message.t = "str"
        /\ \A k \in 1..Len(AccessRows) :
            \E i \in 1..Len(msg_list) :
                msg_list[i].message = Text("Metadata found for access: ", <<AccessRows[k].text_value>>)
        /\ \E i \in 1..Len(msg_list) :
            /\ msg_list[i].message.t = "str"
            /\ MsgRegistration \in {msg_list[i].message.args[j] : j \in 1..Len(msg_list[i].message.args)}

\* C16: when the DataCite or the SOCIB request answers not OK, construction
\* ends in an exception: there is no evaluator, no metadata table, and no
\* indicator is scored in that run
C16_FailedAcquisitionAborts ==
    /\ response \in {"datacite_fail", "socib_fail"} =>
        /\ pc = "aborted"
        /\ raised # ""
        /\ metadata = <<>>
    /\ pc = "aborted" => op = "__init__"

\* C16, its case: the SOCIB request answered not OK and construction raised
C16_Witness ==
    /\ response = "socib_fail"
    /\ pc = "aborted"
    /\ op = "__init__"
    /\ raised = "Exception"

\* the table the constructor built from the document it received
Built == get_metadata(response, document).rows

\* the results an indicator can give when it is the first one invoked on the
\* evaluator as constructed
FirstResults(name) ==
    CASE name = "rda_f4_01m" -> {rda_f4_01m(Built)}
      [] name = "rda_a1_01m" -> {rda_a1_01m(ResolveTerms(Built, TermsAccess))}
      [] name = "rda_a1_02m" -> {rda_a1_02m(page) : page \in LandingPages}
      [] name = "rda_a1_03m" -> {rda_a1_03m(Built)}
      [] name = "rda_i1_01m" -> {rda_i1_01m(cv_validated)}
      [] name = "rda_i1_01d" -> {rda_i1_01d(config_data_standard, fairsharing)}
      [] name = "rda_i1_02d" -> {rda_i1_02d(config_data_standard, fairsharing)}
      [] name = "rda_i2_01m" -> {rda_i2_01m(cv_validated)}
      [] name = "rda_i2_01d" -> {rda_i2_01d(config_data_standard, fairsharing)}
      [] name = "rda_i3_01m" -> {rda_i3_01m(relations)}
      [] name = "rda_i3_03m" -> {rda_i3_03m(relations)}
      [] name = "rda_r1_1_02m" -> {LicenseResult(rda_r1_1_02m(license_list, FALSE))}
      [] name = "rda_r1_1_03m" -> {LicenseResult(rda_r1_1_03m(license_list))}
      [] name = "rda_r1_3_01d" -> {rda_r1_3_01d(config_data_standard, fairsharing)}
      [] OTHER -> {}

\* what the indicators read: the attributes of the evaluator, its
\* configuration and the answers of its collaborators
EvaluatorState ==
    <<pc, metadata, data_standard, config_data_standard, fairsharing, relations,
      cv_validated, license_list>>

\* C17: no indicator changes the metadata table or anything another indicator
\* reads: a step taken on a constructed evaluator leaves its state as it was,
\* and after any sequence of invocations the result of the last one is a
\* result it gives when invoked first
C17_IndicatorsLeaveStateAlone ==
    /\ [][pc = "constructed" => UNCHANGED EvaluatorState]_vars
    /\ [](pc = "constructed" =>
            /\ metadata = Built
            /\ data_standard = config_data_standard
            /\ op # "__init__" => Result \in FirstResults(op))

\* C17, its case: an alias that calls its target has returned on an evaluator
\* with records and configured data standards, and the table is as built
C17_Witness ==
    /\ pc = "constructed"
    /\ op = "rda_r1_3_01d"
    /\ raised = ""
    /\ Len(metadata) = 3
    /\ metadata = Built
    /\ Len(data_standard) = 2

\* the number of configured data standards that are an abbreviation of the registry
NumRegistered(standards, registry) ==
    Cardinality({i \in 1..Len(standards) :
                    \E k \in 1..Len(registry) : registry[k] = standards[i]})

\* C18: rda_i1_01d scores (configured data standards found / configured data
\* standards) * 100, a standard being found only if it equals the abbreviation
\* of a registry entry; without configured data standards the score is 0
C18_StandardsRatio ==
    op = "rda_i1_01d" =>
        /\ raised = ""
        /\ data_standard = <<>> => points = 0
        /\ data_standard # <<>> =>
            points = Ratio(NumRegistered(data_standard, fairsharing), Len(data_standard))

\* C18, its case: of two configured standards one is an abbreviation of the
\* registry and the other is only contained in one
C18_Witness ==
    /\ op = "rda_i1_01d"
    /\ data_standard = <<"NetCDF", "CF">>
    /\ fairsharing = <<"NetCDF", "NetCDF-CF">>
    /\ points = Ratio(1, 2)

\* the (element, vocabulary, valid values) of kwargs with valid values
ValidTriples(kwargs) ==
    UNION {{<<kwargs[i].element, kwargs[i].validation[j].vocabulary, kwargs[i].validation[j].valid>> :
                j \in {j \in 1..Len(kwargs[i].validation) : kwargs[i].validation[j].valid # <<>>}} :
           i \in 1..Len(kwargs)}

\* C19: rda_i3_03m returns 100 iff some configured relation element has, for
\* some vocabulary, valid values in its validation result, and 0 otherwise;
\* with 100 the message names every such element, vocabulary and values
C19_QualifiedReferences ==
    op = "rda_i3_03m" =>
        /\ raised = ""
        /\ Len(msg_list) = 1
        /\ points = (IF ValidTriples(relations) # {} THEN 100 ELSE 0)
        /\ points = 100 =>
            \A tr \in ValidTriples(relations) :
                \E k \in 1..Len(msg_list[1].message.args) :
                    msg_list[1].message.args[k].args = tr

\* C19, its case: two elements, one of them with a vocabulary without and a
\* vocabulary with valid values
C19_Witness ==
    /\ op = "rda_i3_03m"
    /\ Len(relations) = 2
    /\ Cardinality(ValidTriples(relations)) = 2
    /\ points = 100
    /\ Len(msg_list[1].message.args) = 2

\* C20: rda_f4_01m and rda_a1_03m each return 100 if the metadata table holds
\* a record and 0 if it is empty, so that they agree on every table, and the
\* single message entry carries the points returned
C20_PresenceIndicators ==
    /\ pc = "constructed" => rda_f4_01m(metadata).points = rda_a1_03m(metadata).points
    /\ op \in {"rda_f4_01m", "rda_a1_03m"} =>
        /\ raised = ""
        /\ points = (IF Len(metadata) >= 1 THEN 100 ELSE 0)
        /\ Len(msg_list) = 1
        /\ msg_list[1].points = points

\* C20, its case: rda_a1_03m returned on an evaluator whose table is empty
C20_Witness ==
    /\ op = "rda_a1_03m"
    /\ pc = "constructed"
    /\ metadata = <<>>
    /\ points = 0
    /\ msg_list[1].points = 0

\* the number of records a value under a key stands for
RecordsFor(value) == IF IsList(value) THEN Len(value.l) ELSE 1

\* the sum of RecordsFor over the keys of a document
RECURSIVE RecordCount(_)
RecordCount(doc) ==
    IF doc = <<>> THEN 0 ELSE RecordsFor(Head(doc)[2]) + RecordCount(Tail(doc))

\* the values of the records of a table under one key, in the order of the table
ValuesUnder(md, key) ==
    LET rows == SelectSeq(md, LAMBDA row : row.element = key) IN
    [i \in 1..Len(rows) |-> rows[i].text_value]

\* C21: the table get_metadata builds holds, for each top-level key of the
\* document, one record per item of a list value and one record for any other
\* value; every record carries the schemaVersion of the document as schema and
\* no qualifier; the number of records is the sum over the keys of the list
\* length, or 1 for a value that is not a list
C21_TableFromDocument ==
    pc = "constructed" =>
        /\ Len(metadata) = RecordCount(document)
        /\ \A i \in 1..Len(metadata) :
            /\ metadata[i].metadata_schema = DocGet(document, "schemaVersion")
            /\ metadata[i].qualifier = NoneV
            /\ DocHas(document, metadata[i].element)
        /\ \A k \in 1..Len(document) :
            ValuesUnder(metadata, document[k][1]) =
                (IF IsList(document[k][2]) THEN document[k][2].l ELSE <<document[k][2]>>)

\* C21, its case: a document with a text under one key and a list of two
\* texts under another gives three records
C21_Witness ==
    /\ pc = "constructed"
    /\ document = DocList
    /\ Len(metadata) = 3
    /\ ValuesUnder(metadata, "conditionsOfAccess") = <<Str("open"), Str("registered")>>

\* C22: gather returns an empty list whenever the raw value list is empty,
\* for every element kind, one gather has a rule for or not
C22_EmptyListStaysEmpty ==
    (GatherDone /\ element_values = List(<<>>)) =>
        /\ ~gather_raised
        /\ values = List(<<>>)

\* C22, its case: an empty raw list under a kind gather has no rule for,
\* returned by the except branch
C22_Witness ==
    /\ element = "Spatial Coverage"
    /\ element_values = List(<<>>)
    /\ gather_path = "fallback"
    /\ values = List(<<>>)

\* C23: whenever every license of a non-empty list validates as SPDX-standard,
\* rda_r1_1_02m returns exactly 100 with the message that the license/s in use
\* are standard, not the 'subset' message, whatever the length of the list
C23_AllValidScoresFull ==
    (/\ op = "rda_r1_1_02m"
     /\ license_list # <<>>
     /\ NumStandard(license_list, FALSE) = Len(license_list)) =>
        /\ raised = ""
        /\ points = 100
        /\ msg.text = MsgStandard
        /\ msg.points = 100

\* an entry with a `value` field
HasValue(v) == v.t = "dict" /\ "value" \in DOMAIN v.d

\* C24: for Data Identifier gather returns the `value` fields of the raw
\* structured entries, one per entry and in their order, so that no element
\* of the output is a structured entry of the raw list
C24_DataIdentifierValues ==
    (GatherDone /\ element = "Data Identifier" /\ IsList(element_values)) =>
        /\ IsList(values)
        /\ (\A j \in 1..Len(element_values.l) : HasValue(element_values.l[j])) =>
              values.l = [j \in 1..Len(element_values.l) |-> element_values.l[j].d["value"]]
        /\ \A i \in 1..Len(values.l) :
            ~\E j \in 1..Len(element_values.l) :
                HasValue(element_values.l[j]) /\ element_values.l[j] = values.l[i]

\* the texts of the two rows of the decision table with the manual access
\* signal absent
AccessAbsentTexts ==
    {"Data can not be accessed manually | %s",
     "No access information can be found in the metadata. Please, add information to the following term(s) %s"}

\* C25: the manual access signal being the constant 100, rda_a1_01m returns
\* 100 for every resolved slice of access metadata, the empty one included;
\* the rows of its table with the signal absent are never taken, and the last
\* entry of its message list carries 100 points
C25_AccessAlwaysFull ==
    op = "rda_a1_01m" =>
        /\ raised = ""
        /\ points = 100
        /\ Len(msg_list) = 2
        /\ msg_list[Len(msg_list)].points = 100
        /\ msg_list[Len(msg_list)].message.text \notin AccessAbsentTexts

====
